---- MODULE Spec2Model ----
(***************************************************************************)
(* License & trial engine of dilag (src-tauri/src/licensing.rs).           *)
(*                                                                         *)
(* The persisted record (license.json), the untrusted local clock, the    *)
(* trusted-time sources and the license authority are the state and the   *)
(* inputs; the Tauri commands get_license_status, start_trial,            *)
(* activate_license, validate_license and reset_license are the           *)
(* operations.  An async command is split where it touches shared state:  *)
(* at its awaits (the network calls) and between its load and its save of *)
(* the record, so that commands running on the async runtime interleave   *)
(* exactly where the code lets them.                                      *)
(*                                                                         *)
(* Option<T> is modelled as a set: {} is None, {x} is Some(x).             *)
(***************************************************************************)
EXTENDS Integers, FiniteSets, Sequences, TLC

VARIABLES
    file,      \* ~/.dilag/license.json: absent, unparsable, or a record
    pc,        \* pc[p]: where command task p is suspended ("idle" = none)
    local,     \* local[p]: the locals of task p that live across its steps
    ret,       \* ret[p]: what the last command run by task p returned
    seen,      \* history: trusted timestamps obtained so far, as a high-water mark
    expiredAt, \* history: lowest effective time at which TrialExpired was returned
    issued     \* history: how many commands the front end has invoked

vars == <<file, pc, local, ret, seen, expiredAt, issued>>

----------------------------------------------------------------------------
\* Constants of licensing.rs

DAY == 86400
TRIAL_DAYS == 7
GRACE_PERIOD_SECS == 3 * 24 * 60 * 60
EXTENDED_GRACE_SECS == 7 * 24 * 60 * 60

----------------------------------------------------------------------------
\* Input domains of the model

\* The instant the scenarios are laid out around: 100 days after the epoch,
\* so that a clock set back by 100 days is still a valid unsigned timestamp.
Base == 100 * DAY

\* Timestamps the clock and the time sources may show.
Times ==
    { 0, Base, Base + 3 * DAY, Base + 6 * DAY, Base + 7 * DAY,
      Base + 7 * DAY + 1 }

\* How many commands the front end invokes in one run of the model.
MaxCommands == 3

Keys == { "key-1", "key-2" }
ActivationIds == { "act-1" }
MachineUid == "device-1"

\* Command tasks.  Task 1 alone runs in the sequential specification.
Procs == { 1, 2 }

None == {}
Some(x) == { x }
Get(o) == CHOOSE x \in o : TRUE
OptTimes == { None } \cup { Some(t) : t \in Times }

----------------------------------------------------------------------------
\* LicenseState and LicenseStatus

DefaultState ==
    [ license_key |-> None, activation_id |-> None, device_id |-> None,
      trial_start_utc |-> None, last_validated_at |-> None,
      activated_at |-> None, is_activated |-> FALSE,
      last_server_time_check |-> None ]

\* A value of LicenseStatus, or of Result<LicenseStatus, String>, as a command
\* returns it.  now, fetched and clock are not part of the returned value:
\* they record the effective time the status was computed from, the trusted
\* time the command obtained and the local time it read.
Returned(op, ok, status, days, err, now, fetched, local_time) ==
    [ op |-> op, ok |-> ok, status |-> status, days_remaining |-> days,
      err |-> err, now |-> now, fetched |-> fetched, clock |-> local_time ]

NoReturn == Returned("none", TRUE, "none", 0, "", None, None, None)

IdleLocal == [ state |-> DefaultState, t |-> None, key |-> None ]

----------------------------------------------------------------------------
\* File operations

AbsentFile == [ kind |-> "absent", content |-> DefaultState ]
CorruptFile == [ kind |-> "corrupt", content |-> DefaultState ]

\* load_license_state: Ok(default) when the file does not exist, Err when it
\* exists and serde_json cannot parse it, Ok(record) otherwise.
LoadOk(f) == f.kind # "corrupt"
LoadState(f) == IF f.kind = "ok" THEN f.content ELSE DefaultState

\* save_license_state: a full overwrite; ioOk = FALSE is an I/O failure,
\* which leaves the file as it was.
SaveState(f, state, ioOk) ==
    IF ioOk THEN [ kind |-> "ok", content |-> state ] ELSE f

----------------------------------------------------------------------------
\* Arithmetic of the source

\* Variant: the division rounds down instead.
TruncDiv_Floor(a, b) == a \div b

\* i64 division truncates toward zero.
TruncDiv(a, b) == IF a >= 0 THEN a \div b ELSE -((-a) \div b)

\* Variant: the subtraction wraps around below zero instead of stopping at
\* zero.
SaturatingSub_Wraps(a, b) == IF a >= b THEN a - b ELSE 2147483647 - (b - a) + 1

\* u64::saturating_sub
SaturatingSub(a, b) == IF a >= b THEN a - b ELSE 0

\* `as u32` of an i64: the low 32 bits.  Every value cast in this model is
\* in 0 .. 2^31 - 1, where the cast changes nothing; below zero it wraps.
AsU32(x) == IF x >= 0 THEN x ELSE x + 2147483647 + 2147483647 + 2

----------------------------------------------------------------------------
\* Time utilities

\* One reading of the three time sources, in the order the code asks them:
\* worldtimeapi.org, then the Date header of cloudflare.com, then of
\* www.google.com.  A source's entry is Some(t) when it answers with a time
\* the code can parse, None when the request or the parse fails.
SourceReadings ==
    { <<a, None, None>> : a \in OptTimes }
        \cup { <<None, b, None>> : b \in OptTimes }
        \cup { <<None, None, c>> : c \in OptTimes }

\* Variant: the Date header of www.google.com is preferred to cloudflare's.
get_server_time_GoogleFirst(srcs) ==
    IF srcs[1] # None THEN srcs[1]
    ELSE IF srcs[3] # None THEN srcs[3]
    ELSE srcs[2]

\* get_server_time: the first source that yields a time; None is the Err.
get_server_time(srcs) ==
    IF srcs[1] # None THEN srcs[1]
    ELSE IF srcs[2] # None THEN srcs[2]
    ELSE srcs[3]

Max(a, b) == IF a >= b THEN a ELSE b
Min(a, b) == IF a <= b THEN a ELSE b

\* The high-water mark of an optional timestamp and a new one.
HighWater(o, t) == IF o = None THEN Some(t) ELSE Some(Max(Get(o), t))
LowWater(o, t) == IF o = None THEN Some(t) ELSE Some(Min(Get(o), t))

----------------------------------------------------------------------------
\* Polar API

\* What the license authority (or the network) answers to one request:
\* no answer at all (transport error or timeout), an HTTP status code, and
\* for a 2xx answer a body that parses or not, with its id and status.
HttpCodes == { 200, 400, 401, 403, 404, 409, 422, 500 }
LicenseStatuses == { "granted", "revoked" }

Response(sent, code, parsed, id, status) ==
    [ sent |-> sent, code |-> code, parsed |-> parsed, id |-> id,
      status |-> status ]

Responses ==
    { Response(FALSE, 0, FALSE, "", "") }
        \cup { Response(TRUE, c, FALSE, "", "") : c \in HttpCodes }
        \cup { Response(TRUE, 200, TRUE, i, s) :
                 i \in ActivationIds, s \in LicenseStatuses }

is_client_error(code) == code >= 400 /\ code <= 499
is_success(code) == code >= 200 /\ code <= 299

ApiOk(v) == [ ok |-> TRUE, value |-> v, err |-> "" ]
ApiErr(e) == [ ok |-> FALSE, value |-> "", err |-> e ]

\* Variant: a 5xx answer to the activation counts as a grant.
activate_with_polar_LenientOn5xx(resp) ==
    IF ~resp.sent THEN ApiErr("Network error")
    ELSE IF is_client_error(resp.code) THEN ApiErr("Activation failed")
    ELSE IF ~is_success(resp.code) THEN ApiOk("offline")
    ELSE IF ~resp.parsed THEN ApiErr("Failed to parse response")
    ELSE IF resp.status = "granted" THEN ApiOk(resp.id)
    ELSE ApiErr("Activation rejected")

\* Variant: a 409 answer to the activation gets the generic message of the
\* other 4xx codes.
activate_with_polar_ConflictIsGeneric(resp) ==
    IF ~resp.sent THEN ApiErr("Network error")
    ELSE IF is_client_error(resp.code) THEN
        CASE resp.code = 400 -> ApiErr("Invalid license key format. Please check your license key.")
          [] resp.code = 401 -> ApiErr("License key authentication failed.")
          [] resp.code = 403 -> ApiErr("License key is expired or has reached its device limit.")
          [] resp.code = 404 -> ApiErr("License key not found.")
          [] OTHER -> ApiErr("Activation failed")
    ELSE IF ~is_success(resp.code) THEN
        ApiErr("License server temporarily unavailable. Please try again.")
    ELSE IF ~resp.parsed THEN ApiErr("Failed to parse response")
    ELSE IF resp.status = "granted" THEN ApiOk(resp.id)
    ELSE ApiErr("Activation rejected")

\* activate_with_polar, from the answer on: Ok(activation id) or Err(message).
activate_with_polar(resp) ==
    IF ~resp.sent THEN ApiErr("Network error")
    ELSE IF is_client_error(resp.code) THEN
        CASE resp.code = 400 -> ApiErr("Invalid license key format. Please check your license key.")
          [] resp.code = 401 -> ApiErr("License key authentication failed.")
          [] resp.code = 403 -> ApiErr("License key is expired or has reached its device limit.")
          [] resp.code = 404 -> ApiErr("License key not found.")
          [] resp.code = 409 -> ApiErr("License key already activated on maximum devices.")
          [] OTHER -> ApiErr("Activation failed")
    ELSE IF ~is_success(resp.code) THEN
        ApiErr("License server temporarily unavailable. Please try again.")
    ELSE IF ~resp.parsed THEN ApiErr("Failed to parse response")
    ELSE IF resp.status = "granted" THEN ApiOk(resp.id)
    ELSE ApiErr("Activation rejected")

\* Variant: a status other than "granted" is reported as a failed call.
validate_with_polar_RevokedIsErr(resp) ==
    IF ~resp.sent THEN ApiErr("Network error")
    ELSE IF is_client_error(resp.code) THEN ApiErr("Validation failed")
    ELSE IF ~is_success(resp.code) THEN
        ApiErr("License server temporarily unavailable.")
    ELSE IF ~resp.parsed THEN ApiErr("Failed to parse response")
    ELSE IF resp.status = "granted" THEN ApiOk("true")
    ELSE ApiErr("License is no longer valid")

\* validate_with_polar, from the answer on: Ok(bool) or Err(message).
validate_with_polar(resp) ==
    IF ~resp.sent THEN ApiErr("Network error")
    ELSE IF is_client_error(resp.code) THEN
        CASE resp.code = 400 -> ApiErr("Invalid license key format.")
          [] resp.code \in { 401, 403 } -> ApiErr("License key is invalid or expired.")
          [] resp.code = 404 -> ApiErr("License key not found.")
          [] OTHER -> ApiErr("Validation failed")
    ELSE IF ~is_success(resp.code) THEN
        ApiErr("License server temporarily unavailable.")
    ELSE IF ~resp.parsed THEN ApiErr("Failed to parse response")
    ELSE [ ok |-> TRUE, value |-> IF resp.status = "granted" THEN "true" ELSE "false", err |-> "" ]

----------------------------------------------------------------------------
\* The status computations of get_license_status

\* Variant: once a command has answered Activated, the answer is kept.
ActivatedStatus_Remembered(state, current_time) ==
    IF \E p \in Procs : ret[p].status = "Activated" THEN "Activated"
    ELSE IF state.last_validated_at # None THEN
        LET time_since == SaturatingSub(current_time, Get(state.last_validated_at))
        IN  IF time_since < EXTENDED_GRACE_SECS THEN "Activated"
            ELSE "RequiresValidation"
    ELSE "Activated"

\* Variant: validation is required as soon as GRACE_PERIOD_SECS has passed.
ActivatedStatus_GraceOnly(state, current_time) ==
    IF state.last_validated_at # None THEN
        LET time_since == SaturatingSub(current_time, Get(state.last_validated_at))
        IN  IF time_since < GRACE_PERIOD_SECS THEN "Activated"
            ELSE "RequiresValidation"
    ELSE "Activated"

\* Variant: a record that was never validated is measured from activated_at.
ActivatedStatus_SinceActivation(state, current_time) ==
    LET since == IF state.last_validated_at # None THEN state.last_validated_at
                 ELSE state.activated_at
    IN  IF since # None THEN
            IF SaturatingSub(current_time, Get(since)) < EXTENDED_GRACE_SECS
            THEN "Activated" ELSE "RequiresValidation"
        ELSE "Activated"

\* The activated branch: the status of a record with is_activated and a
\* license key, at local time current_time.
ActivatedStatus(state, current_time) ==
    IF state.last_validated_at # None THEN
        LET time_since == SaturatingSub(current_time, Get(state.last_validated_at))
        IN  IF time_since < GRACE_PERIOD_SECS THEN "Activated"
            ELSE IF time_since < EXTENDED_GRACE_SECS THEN "Activated"
            ELSE "RequiresValidation"
    ELSE "Activated"

\* Variant: the fallback trusts the local time alone.
FallbackNow_LocalOnly(local_time, last_server_time_check) == local_time

\* The fallback of the trial branch when no time source answers: the later
\* of the local time and the stored last_server_time_check.
FallbackNow(local_time, last_server_time_check) ==
    IF last_server_time_check # None /\ Get(last_server_time_check) > local_time
    THEN Get(last_server_time_check)
    ELSE local_time

days_elapsed(now, trial_start) == TruncDiv(now - trial_start, DAY)

\* Variant: the day that has begun already counts as used.
TrialStatus_DayBegunCounts(now, trial_start) ==
    IF days_elapsed(now, trial_start) >= TRIAL_DAYS
    THEN [ status |-> "TrialExpired", days_remaining |-> 0 ]
    ELSE [ status |-> "Trial",
           days_remaining |-> AsU32(TRIAL_DAYS - days_elapsed(now, trial_start) - 1) ]

\* Variant: the trial expires one day late (> for >=).
TrialStatus_OffByOne(now, trial_start) ==
    IF days_elapsed(now, trial_start) > TRIAL_DAYS
    THEN [ status |-> "TrialExpired", days_remaining |-> 0 ]
    ELSE [ status |-> "Trial",
           days_remaining |-> AsU32(TRIAL_DAYS - days_elapsed(now, trial_start)) ]

\* The trial branch from the effective time on: the status and its payload.
TrialStatus(now, trial_start) ==
    IF days_elapsed(now, trial_start) >= TRIAL_DAYS
    THEN [ status |-> "TrialExpired", days_remaining |-> 0 ]
    ELSE [ status |-> "Trial",
           days_remaining |-> AsU32(TRIAL_DAYS - days_elapsed(now, trial_start)) ]

\* The record get_license_status writes back after a trusted reading.
WithServerTime(state, server_time) ==
    [ state EXCEPT !.last_server_time_check = Some(server_time) ]

\* Variant: start_trial never refuses.
TrialAlreadyStarted_Never(state) == FALSE

\* The guard of start_trial: the record already holds a trial start.
TrialAlreadyStarted(state) == state.trial_start_utc # None

\* Variant: the trial starts at the beginning of the day of the time fetched.
WithTrialStart_DayStart(state, server_time) ==
    [ state EXCEPT !.trial_start_utc = Some((server_time \div DAY) * DAY) ]

\* The record start_trial writes.
WithTrialStart(state, server_time) ==
    [ state EXCEPT !.trial_start_utc = Some(server_time) ]

\* Variant: activation stores the two identifiers in each other's field.
WithActivation_IdsSwapped(state, key, activation_id, device_id, current_time) ==
    [ state EXCEPT !.license_key = Some(key),
                   !.activation_id = Some(device_id),
                   !.device_id = Some(activation_id),
                   !.is_activated = TRUE,
                   !.activated_at = Some(current_time),
                   !.last_validated_at = Some(current_time) ]

\* Variant: activation does not record when it happened.
WithActivation_NoTimestamp(state, key, activation_id, device_id, current_time) ==
    [ state EXCEPT !.license_key = Some(key),
                   !.activation_id = Some(activation_id),
                   !.device_id = Some(device_id),
                   !.is_activated = TRUE,
                   !.last_validated_at = Some(current_time) ]

\* Variant: activation writes a fresh record instead of the loaded one.
WithActivation_Fresh(state, key, activation_id, device_id, current_time) ==
    [ DefaultState EXCEPT !.license_key = Some(key),
                          !.activation_id = Some(activation_id),
                          !.device_id = Some(device_id),
                          !.is_activated = TRUE,
                          !.activated_at = Some(current_time),
                          !.last_validated_at = Some(current_time) ]

\* Variant: an activation ends the trial bookkeeping of the record.
WithActivation_ClearsTrial(state, key, activation_id, device_id, current_time) ==
    [ state EXCEPT !.license_key = Some(key),
                   !.activation_id = Some(activation_id),
                   !.device_id = Some(device_id),
                   !.is_activated = TRUE,
                   !.activated_at = Some(current_time),
                   !.last_validated_at = Some(current_time),
                   !.trial_start_utc = None,
                   !.last_server_time_check = None ]

\* The record activate_license writes.
WithActivation(state, key, activation_id, device_id, current_time) ==
    [ state EXCEPT !.license_key = Some(key),
                   !.activation_id = Some(activation_id),
                   !.device_id = Some(device_id),
                   !.is_activated = TRUE,
                   !.activated_at = Some(current_time),
                   !.last_validated_at = Some(current_time) ]

\* Variant: a validation also renews activated_at.
WithValidation_RenewsActivation(state, current_time) ==
    [ state EXCEPT !.last_validated_at = Some(current_time),
                   !.activated_at = Some(current_time) ]

\* The record validate_license writes.
WithValidation(state, current_time) ==
    [ state EXCEPT !.last_validated_at = Some(current_time) ]

\* Variant: the leniency of validate ends with GRACE_PERIOD_SECS.
WithinExtendedGrace_ThreeDays(state, current_time) ==
    /\ state.last_validated_at # None
    /\ SaturatingSub(current_time, Get(state.last_validated_at)) < GRACE_PERIOD_SECS

\* Whether validate_license lets a failed authority call pass: the record
\* read before the call was validated less than EXTENDED_GRACE_SECS ago.
WithinExtendedGrace(state, current_time) ==
    /\ state.last_validated_at # None
    /\ SaturatingSub(current_time, Get(state.last_validated_at)) < EXTENDED_GRACE_SECS

----------------------------------------------------------------------------
\* Steps of the commands

Finish(p, r) ==
    /\ ret' = [ret EXCEPT ![p] = r]
    /\ pc' = [pc EXCEPT ![p] = "idle"]
    /\ local' = [local EXCEPT ![p] = IdleLocal]

Suspend(p, at, l) ==
    /\ pc' = [pc EXCEPT ![p] = at]
    /\ local' = [local EXCEPT ![p] = l]
    /\ UNCHANGED ret

\* The front end invokes a command on an idle task.
Invoke(p) ==
    /\ pc[p] = "idle"
    /\ issued < MaxCommands
    /\ issued' = issued + 1

Status(op, status, local_time) ==
    Returned(op, TRUE, status, 0, "", None, None, local_time)
Failure(op, err) == Returned(op, FALSE, "none", 0, err, None, None, None)
FailureAt(op, err, local_time) ==
    Returned(op, FALSE, "none", 0, err, None, None, local_time)

\* Variant: a file that does not parse is answered as a record without a
\* license.
GetStatusCall_CorruptIsNoLicense(p, current_time) ==
    /\ Invoke(p)
    /\ UNCHANGED <<file, seen, expiredAt>>
    /\ LET state == IF LoadOk(file) THEN LoadState(file) ELSE DefaultState
       IN  IF state.is_activated /\ state.license_key # None THEN
               Finish(p, Status("get_status", ActivatedStatus(state, current_time),
                                Some(current_time)))
           ELSE IF state.trial_start_utc # None THEN
               Suspend(p, "gs_fetch", [IdleLocal EXCEPT !.state = state])
           ELSE Finish(p, Status("get_status", "NoLicense", None))

\* get_license_status with the two branches in the other order: the trial
\* branch is tried before the activated one.
GetStatusCall_TrialFirst(p, current_time) ==
    /\ Invoke(p)
    /\ UNCHANGED <<file, seen, expiredAt>>
    /\ IF ~LoadOk(file) THEN
           Finish(p, Returned("get_status", TRUE, "Error", 0, "load failed",
                              None, None, None))
       ELSE LET state == LoadState(file)
            IN  IF state.trial_start_utc # None THEN
                    Suspend(p, "gs_fetch", [IdleLocal EXCEPT !.state = state])
                ELSE IF state.is_activated /\ state.license_key # None THEN
                    Finish(p, Status("get_status", ActivatedStatus(state, current_time),
                                     Some(current_time)))
                ELSE Finish(p, Status("get_status", "NoLicense", None))

\* get_license_status up to its await: the load, the activated branch, the
\* NoLicense result; a trial record suspends the task in get_server_time.
GetStatusCall(p, current_time) ==
    /\ Invoke(p)
    /\ UNCHANGED <<file, seen, expiredAt>>
    /\ IF ~LoadOk(file) THEN
           Finish(p, Returned("get_status", TRUE, "Error", 0, "load failed",
                              None, None, None))
       ELSE LET state == LoadState(file)
            IN  IF state.is_activated /\ state.license_key # None THEN
                    Finish(p, Status("get_status", ActivatedStatus(state, current_time),
                                     Some(current_time)))
                ELSE IF state.trial_start_utc # None THEN
                    Suspend(p, "gs_fetch", [IdleLocal EXCEPT !.state = state])
                ELSE Finish(p, Status("get_status", "NoLicense", None))

\* Variant: a failed write of last_server_time_check ends the command with
\* the Error status.
GetStatusResume_SaveMustSucceed(p, srcs, local_time, ioOk) ==
    /\ pc[p] = "gs_fetch"
    /\ LET state == local[p].state
           fetched == get_server_time(srcs)
           now == IF fetched # None THEN Get(fetched)
                  ELSE FallbackNow(local_time, state.last_server_time_check)
           st == TrialStatus(now, Get(state.trial_start_utc))
       IN  /\ file' = IF fetched # None
                      THEN SaveState(file, WithServerTime(state, Get(fetched)), ioOk)
                      ELSE file
           /\ seen' = IF fetched # None THEN HighWater(seen, Get(fetched)) ELSE seen
           /\ IF fetched # None /\ ~ioOk
              THEN /\ expiredAt' = expiredAt
                   /\ Finish(p, Returned("get_status", TRUE, "Error", 0, "save failed",
                                         None, fetched, None))
              ELSE /\ expiredAt' = IF st.status = "TrialExpired"
                                   THEN LowWater(expiredAt, now) ELSE expiredAt
                   /\ Finish(p, Returned("get_status", TRUE, st.status, st.days_remaining,
                                         "", Some(now), fetched,
                                         IF fetched # None THEN None ELSE Some(local_time)))
    /\ UNCHANGED issued

\* get_license_status from the answer of get_server_time on: the write of
\* last_server_time_check (best effort) or the fallback, then the status.
GetStatusResume(p, srcs, local_time, ioOk) ==
    /\ pc[p] = "gs_fetch"
    /\ LET state == local[p].state
           fetched == get_server_time(srcs)
           now == IF fetched # None THEN Get(fetched)
                  ELSE FallbackNow(local_time, state.last_server_time_check)
           st == TrialStatus(now, Get(state.trial_start_utc))
       IN  /\ file' = IF fetched # None
                      THEN SaveState(file, WithServerTime(state, Get(fetched)), ioOk)
                      ELSE file
           /\ seen' = IF fetched # None THEN HighWater(seen, Get(fetched)) ELSE seen
           /\ expiredAt' = IF st.status = "TrialExpired"
                           THEN LowWater(expiredAt, now) ELSE expiredAt
           /\ Finish(p, Returned("get_status", TRUE, st.status, st.days_remaining,
                                 "", Some(now), fetched,
                                 IF fetched # None THEN None ELSE Some(local_time)))
    /\ UNCHANGED issued

\* start_trial: the task starts in get_server_time.
StartTrialCall(p) ==
    /\ Invoke(p)
    /\ Suspend(p, "st_fetch", IdleLocal)
    /\ UNCHANGED <<file, seen, expiredAt>>

\* start_trial from the answer of get_server_time on, up to the save: the
\* `?` on the fetch, the load, the check that no trial was started.
StartTrialResume(p, srcs) ==
    /\ pc[p] = "st_fetch"
    /\ UNCHANGED <<file, expiredAt, issued>>
    /\ LET fetched == get_server_time(srcs)
       IN  IF fetched = None THEN
               /\ Finish(p, Failure("start_trial", "Could not fetch server time. Please check your internet connection."))
               /\ UNCHANGED seen
           ELSE
               /\ seen' = HighWater(seen, Get(fetched))
               /\ IF ~LoadOk(file) THEN
                      Finish(p, Failure("start_trial", "load failed"))
                  ELSE IF TrialAlreadyStarted(LoadState(file)) THEN
                      Finish(p, Failure("start_trial", "Trial already started"))
                  ELSE Suspend(p, "st_save",
                               [ IdleLocal EXCEPT
                                   !.state = WithTrialStart(LoadState(file), Get(fetched)),
                                   !.t = fetched ])

\* Variant: a save that fails sends start_trial back to its time fetch.
StartTrialSave_RetriesOnFailure(p, ioOk) ==
    /\ pc[p] = "st_save"
    /\ file' = SaveState(file, local[p].state, ioOk)
    /\ IF ioOk THEN
           Finish(p, Returned("start_trial", TRUE, "Trial", AsU32(TRIAL_DAYS), "",
                              None, local[p].t, None))
       ELSE Suspend(p, "st_fetch", IdleLocal)
    /\ UNCHANGED <<seen, expiredAt, issued>>

\* start_trial: the save and the result.
StartTrialSave(p, ioOk) ==
    /\ pc[p] = "st_save"
    /\ file' = SaveState(file, local[p].state, ioOk)
    /\ IF ioOk THEN
           Finish(p, Returned("start_trial", TRUE, "Trial", AsU32(TRIAL_DAYS), "",
                              None, local[p].t, None))
       ELSE Finish(p, Failure("start_trial", "save failed"))
    /\ UNCHANGED <<seen, expiredAt, issued>>

\* Variant: the request is sent whether or not the device id is known.
ActivateCall_NoDeviceCheck(p, key, devOk) ==
    /\ Invoke(p)
    /\ UNCHANGED <<file, seen, expiredAt>>
    /\ Suspend(p, "act_polar", [IdleLocal EXCEPT !.key = Some(key)])

\* activate_license(key) up to the request to the authority: inside
\* activate_with_polar the device id is read first (devOk: machine_uid
\* answers).
ActivateCall(p, key, devOk) ==
    /\ Invoke(p)
    /\ UNCHANGED <<file, seen, expiredAt>>
    /\ IF ~devOk THEN Finish(p, Failure("activate", "Failed to get device ID"))
       ELSE Suspend(p, "act_polar", [IdleLocal EXCEPT !.key = Some(key)])

\* activate_license from the authority's answer on, up to the save.
ActivateResume(p, resp, devOk, current_time) ==
    /\ pc[p] = "act_polar"
    /\ UNCHANGED <<file, seen, expiredAt, issued>>
    /\ LET r == activate_with_polar(resp)
       IN  IF ~r.ok THEN Finish(p, Failure("activate", r.err))
           ELSE IF ~devOk THEN Finish(p, Failure("activate", "Failed to get device ID"))
           ELSE IF ~LoadOk(file) THEN Finish(p, Failure("activate", "load failed"))
           ELSE Suspend(p, "act_save",
                        [ local[p] EXCEPT
                            !.state = WithActivation(LoadState(file), Get(local[p].key),
                                                     r.value, MachineUid, current_time),
                            !.t = Some(current_time) ])

\* activate_license: the save and the result.
ActivateSave(p, ioOk) ==
    /\ pc[p] = "act_save"
    /\ file' = SaveState(file, local[p].state, ioOk)
    /\ IF ioOk THEN Finish(p, Status("activate", "Activated", local[p].t))
       ELSE Finish(p, Failure("activate", "save failed"))
    /\ UNCHANGED <<seen, expiredAt, issued>>

\* Variant: validate asks the authority without looking for a key.
ValidateCall_NoKeyCheck(p) ==
    /\ Invoke(p)
    /\ UNCHANGED <<file, seen, expiredAt>>
    /\ IF ~LoadOk(file) THEN Finish(p, Failure("validate", "load failed"))
       ELSE Suspend(p, "val_polar",
                    [ IdleLocal EXCEPT !.state = LoadState(file),
                                       !.key = LoadState(file).license_key ])

\* validate_license up to the request to the authority: the load and the
\* check that the record holds a key.
ValidateCall(p) ==
    /\ Invoke(p)
    /\ UNCHANGED <<file, seen, expiredAt>>
    /\ IF ~LoadOk(file) THEN Finish(p, Failure("validate", "load failed"))
       ELSE IF LoadState(file).license_key = None THEN
           Finish(p, Failure("validate", "No license to validate"))
       ELSE Suspend(p, "val_polar",
                    [ IdleLocal EXCEPT !.state = LoadState(file),
                                       !.key = LoadState(file).license_key ])

\* validate_license from the authority's answer on: the second load on
\* Ok(true), the hard error on Ok(false), the grace period on Err.
ValidateResume(p, resp, current_time) ==
    /\ pc[p] = "val_polar"
    /\ UNCHANGED <<file, seen, expiredAt, issued>>
    /\ LET r == validate_with_polar(resp)
           state == local[p].state
       IN  IF r.ok /\ r.value = "true" THEN
               IF ~LoadOk(file) THEN Finish(p, Failure("validate", "load failed"))
               ELSE Suspend(p, "val_save",
                            [ local[p] EXCEPT
                                !.state = WithValidation(LoadState(file), current_time),
                                !.t = Some(current_time) ])
           ELSE IF r.ok THEN
               Finish(p, Failure("validate", "License is no longer valid"))
           ELSE IF WithinExtendedGrace(state, current_time) THEN
               Finish(p, Status("validate", "Activated", Some(current_time)))
           ELSE Finish(p, FailureAt("validate", r.err, Some(current_time)))

\* validate_license: the save and the result.
ValidateSave(p, ioOk) ==
    /\ pc[p] = "val_save"
    /\ file' = SaveState(file, local[p].state, ioOk)
    /\ IF ioOk THEN Finish(p, Status("validate", "Activated", local[p].t))
       ELSE Finish(p, Failure("validate", "save failed"))
    /\ UNCHANGED <<seen, expiredAt, issued>>

\* Variant: reset removes the license and keeps the trial.
ResetLicense_KeepsTrial(p, ioOk) ==
    /\ Invoke(p)
    /\ IF file.kind = "absent" THEN
           /\ Finish(p, Returned("reset", TRUE, "none", 0, "", None, None, None))
           /\ UNCHANGED <<file, expiredAt>>
       ELSE IF ioOk THEN
           /\ file' = IF LoadState(file).trial_start_utc = None THEN AbsentFile
                      ELSE [ kind |-> "ok",
                             content |-> [ DefaultState EXCEPT !.trial_start_utc =
                                             LoadState(file).trial_start_utc ] ]
           /\ expiredAt' = None
           /\ Finish(p, Returned("reset", TRUE, "none", 0, "", None, None, None))
       ELSE
           /\ Finish(p, Failure("reset", "remove failed"))
           /\ UNCHANGED <<file, expiredAt>>
    /\ UNCHANGED seen

\* Variant: reset empties the file instead of removing it.
ResetLicense_Truncates(p, ioOk) ==
    /\ Invoke(p)
    /\ IF ioOk THEN
           /\ file' = CorruptFile
           /\ expiredAt' = None
           /\ Finish(p, Returned("reset", TRUE, "none", 0, "", None, None, None))
       ELSE
           /\ Finish(p, Failure("reset", "remove failed"))
           /\ UNCHANGED <<file, expiredAt>>
    /\ UNCHANGED seen

\* Variant: reset fails when there is no file to remove.
ResetLicense_NeedsFile(p, ioOk) ==
    /\ Invoke(p)
    /\ IF file.kind # "absent" /\ ioOk THEN
           /\ file' = AbsentFile
           /\ expiredAt' = None
           /\ Finish(p, Returned("reset", TRUE, "none", 0, "", None, None, None))
       ELSE
           /\ Finish(p, Failure("reset", "remove failed"))
           /\ UNCHANGED <<file, expiredAt>>
    /\ UNCHANGED seen

\* reset_license: removes the file when it exists (ioOk = FALSE: the
\* removal fails).  The command is synchronous.
ResetLicense(p, ioOk) ==
    /\ Invoke(p)
    /\ IF file.kind = "absent" THEN
           /\ Finish(p, Returned("reset", TRUE, "none", 0, "", None, None, None))
           /\ UNCHANGED <<file, expiredAt>>
       ELSE IF ioOk THEN
           /\ file' = AbsentFile
           /\ expiredAt' = None
           /\ Finish(p, Returned("reset", TRUE, "none", 0, "", None, None, None))
       ELSE
           /\ Finish(p, Failure("reset", "remove failed"))
           /\ UNCHANGED <<file, expiredAt>>
    /\ UNCHANGED seen

----------------------------------------------------------------------------
\* Specifications

\* The installation starts with no license file, or with one that does not
\* parse; no command runs.
Init ==
    /\ file \in { AbsentFile, CorruptFile }
    /\ pc = [p \in Procs |-> "idle"]
    /\ local = [p \in Procs |-> IdleLocal]
    /\ ret = [p \in Procs |-> NoReturn]
    /\ seen = None
    /\ expiredAt = None
    /\ issued = 0

\* GetStatusResume under every input it reads: the local clock when no
\* source answers, the outcome of the write when one does.
GetStatusAnswered(p) ==
    \E srcs \in SourceReadings :
        IF get_server_time(srcs) = None
        THEN \E t \in Times : GetStatusResume(p, srcs, t, TRUE)
        ELSE \E ioOk \in BOOLEAN : GetStatusResume(p, srcs, 0, ioOk)

\* ActivateResume under every input it reads: the local clock once the
\* activation is granted and the device id known.
ActivateAnswered(p) ==
    \E resp \in Responses, devOk \in BOOLEAN :
        IF activate_with_polar(resp).ok /\ devOk
        THEN \E t \in Times : ActivateResume(p, resp, devOk, t)
        ELSE ActivateResume(p, resp, devOk, 0)

Step(p) ==
    \/ \E t \in Times : GetStatusCall(p, t)
    \/ GetStatusAnswered(p)
    \/ StartTrialCall(p)
    \/ \E srcs \in SourceReadings : StartTrialResume(p, srcs)
    \/ \E ioOk \in BOOLEAN : StartTrialSave(p, ioOk)
    \/ \E key \in Keys, devOk \in BOOLEAN : ActivateCall(p, key, devOk)
    \/ ActivateAnswered(p)
    \/ \E ioOk \in BOOLEAN : ActivateSave(p, ioOk)
    \/ ValidateCall(p)
    \/ \E resp \in Responses, t \in Times : ValidateResume(p, resp, t)
    \/ \E ioOk \in BOOLEAN : ValidateSave(p, ioOk)
    \/ \E ioOk \in BOOLEAN : ResetLicense(p, ioOk)

\* One command at a time: task 1 runs every command to its end.
Next == Step(1)

Spec == Init /\ [][Next]_vars

\* The steps that end a wait of task p: the answer, or the timeout, of a
\* network call, and the return of a write to the file.
Resolve(p) ==
    \/ GetStatusAnswered(p)
    \/ \E srcs \in SourceReadings : StartTrialResume(p, srcs)
    \/ \E ioOk \in BOOLEAN : StartTrialSave(p, ioOk)
    \/ ActivateAnswered(p)
    \/ \E ioOk \in BOOLEAN : ActivateSave(p, ioOk)
    \/ \E resp \in Responses, t \in Times : ValidateResume(p, resp, t)
    \/ \E ioOk \in BOOLEAN : ValidateSave(p, ioOk)

\* Every request carries a timeout and every write returns: a command that
\* waits is resumed.
SpecLive == Spec /\ WF_vars(Resolve(1))

\* A record written before last_validated_at existed: every Option field
\* that is missing from the JSON deserializes to None.
LegacyState ==
    [ DefaultState EXCEPT !.license_key = Some("key-1"),
                          !.is_activated = TRUE,
                          !.activated_at = Some(0) ]

\* The installation may also start from such a record.
InitLegacy ==
    /\ file \in { AbsentFile, CorruptFile, [ kind |-> "ok", content |-> LegacyState ] }
    /\ pc = [p \in Procs |-> "idle"]
    /\ local = [p \in Procs |-> IdleLocal]
    /\ ret = [p \in Procs |-> NoReturn]
    /\ seen = None
    /\ expiredAt = None
    /\ issued = 0

SpecLegacy == InitLegacy /\ [][Next]_vars

----------------------------------------------------------------------------
\* The JSON form of LicenseState

\* A JSON value, as far as LicenseState needs one.
JsonNull == [ t |-> "null", s |-> "", n |-> 0, b |-> FALSE ]
JsonString(x) == [ t |-> "string", s |-> x, n |-> 0, b |-> FALSE ]
JsonNumber(x) == [ t |-> "number", s |-> "", n |-> x, b |-> FALSE ]
JsonBool(x) == [ t |-> "bool", s |-> "", n |-> 0, b |-> x ]

\* Serialize of an Option: null for None, the value for Some.
OptionStringToJson(o) == IF o = None THEN JsonNull ELSE JsonString(Get(o))
OptionNumberToJson(o) == IF o = None THEN JsonNull ELSE JsonNumber(Get(o))

\* Variant: is_activated is left out of the document when it is false.
to_string_pretty_SkipsFalse(state) ==
    LET names == { "license_key", "activation_id", "device_id",
                   "trial_start_utc", "last_validated_at", "activated_at",
                   "last_server_time_check" }
                     \cup ( IF state.is_activated THEN { "is_activated" } ELSE {} )
    IN  [ name \in names |->
            CASE name \in { "license_key", "activation_id", "device_id" }
                   -> OptionStringToJson(state[name])
              [] name = "is_activated" -> JsonBool(state.is_activated)
              [] OTHER -> OptionNumberToJson(state[name]) ]

\* serde_json::to_string_pretty of a LicenseState: an object with the eight
\* fields, each always written.
to_string_pretty(state) ==
    [ license_key |-> OptionStringToJson(state.license_key),
      activation_id |-> OptionStringToJson(state.activation_id),
      device_id |-> OptionStringToJson(state.device_id),
      trial_start_utc |-> OptionNumberToJson(state.trial_start_utc),
      last_validated_at |-> OptionNumberToJson(state.last_validated_at),
      activated_at |-> OptionNumberToJson(state.activated_at),
      is_activated |-> JsonBool(state.is_activated),
      last_server_time_check |-> OptionNumberToJson(state.last_server_time_check) ]

\* Deserialize of one field.  An Option field that is missing or null is
\* None; Option<String> takes a string, Option<i64> a number, Option<u64> a
\* number that is not negative.  Anything else is an error: the empty set
\* of parses.
OptionStringFromJson(doc, name) ==
    IF name \notin DOMAIN doc \/ doc[name].t = "null" THEN { None }
    ELSE IF doc[name].t = "string" THEN { Some(doc[name].s) }
    ELSE {}

OptionI64FromJson(doc, name) ==
    IF name \notin DOMAIN doc \/ doc[name].t = "null" THEN { None }
    ELSE IF doc[name].t = "number" THEN { Some(doc[name].n) }
    ELSE {}

OptionU64FromJson(doc, name) ==
    IF name \notin DOMAIN doc \/ doc[name].t = "null" THEN { None }
    ELSE IF doc[name].t = "number" /\ doc[name].n >= 0 THEN { Some(doc[name].n) }
    ELSE {}

\* A bool field has no default: missing is an error.
BoolFromJson(doc, name) ==
    IF name \in DOMAIN doc /\ doc[name].t = "bool" THEN { doc[name].b } ELSE {}

\* serde_json::from_str::<LicenseState>: the set holding the record the
\* document denotes, or the empty set when a field does not deserialize.
from_str(doc) ==
    { [ license_key |-> k, activation_id |-> a, device_id |-> d,
        trial_start_utc |-> ts, last_validated_at |-> lv,
        activated_at |-> at, is_activated |-> ia,
        last_server_time_check |-> lc ] :
        k \in OptionStringFromJson(doc, "license_key"),
        a \in OptionStringFromJson(doc, "activation_id"),
        d \in OptionStringFromJson(doc, "device_id"),
        ts \in OptionI64FromJson(doc, "trial_start_utc"),
        lv \in OptionU64FromJson(doc, "last_validated_at"),
        at \in OptionU64FromJson(doc, "activated_at"),
        ia \in BoolFromJson(doc, "is_activated"),
        lc \in OptionI64FromJson(doc, "last_server_time_check") }

\* The records the round trip is run on: every combination of absent and
\* present fields, a trial start before the epoch included.
RecordValues ==
    [ license_key : { None, Some("key-1") },
      activation_id : { None, Some("act-1") },
      device_id : { None, Some(MachineUid) },
      trial_start_utc : { None, Some(-1), Some(Base) },
      last_validated_at : { None, Some(0), Some(Base) },
      activated_at : { None, Some(Base) },
      is_activated : BOOLEAN,
      last_server_time_check : { None, Some(Base) } ]

\* A document as an older build or a hand wrote it: the null fields left
\* out.
WithoutNulls(doc) ==
    [ name \in { x \in DOMAIN doc : doc[x].t # "null" } |-> doc[name] ]

\* The round trip starts from a record in memory and no file, or from a
\* file whose document leaves out its null fields.
InitRoundTrip ==
    /\ \E state \in RecordValues :
          \/ /\ file = AbsentFile
             /\ pc = [p \in Procs |-> "idle"]
             /\ local = [p \in Procs |-> [ IdleLocal EXCEPT !.state = state ]]
          \/ /\ file = [ kind |-> "json",
                         content |-> WithoutNulls(to_string_pretty(state)) ]
             /\ pc = [p \in Procs |-> "saved"]
             /\ local = [p \in Procs |-> IdleLocal]
    /\ ret = [p \in Procs |-> NoReturn]
    /\ seen = None
    /\ expiredAt = None
    /\ issued = 0

\* save_license_state of the record in memory: the file holds its document.
RoundTripSave(p) ==
    /\ pc[p] \in { "idle", "loaded" }
    /\ file' = [ kind |-> "json", content |-> to_string_pretty(local[p].state) ]
    /\ pc' = [pc EXCEPT ![p] = IF pc[p] = "idle" THEN "saved" ELSE "resaved"]
    /\ UNCHANGED <<local, ret, seen, expiredAt, issued>>

\* load_license_state of the file: the record in memory is the one parsed,
\* or the load fails.
RoundTripLoad(p) ==
    /\ pc[p] = "saved"
    /\ IF from_str(file.content) = {} THEN
           /\ ret' = [ret EXCEPT ![p] = Failure("load", "load failed")]
           /\ pc' = [pc EXCEPT ![p] = "failed"]
           /\ UNCHANGED local
       ELSE
           /\ ret' = [ret EXCEPT ![p] = Returned("load", TRUE, "none", 0, "", None, None, None)]
           /\ pc' = [pc EXCEPT ![p] = "loaded"]
           /\ local' = [local EXCEPT ![p].state = Get(from_str(file.content))]
    /\ UNCHANGED <<file, seen, expiredAt, issued>>

NextRoundTrip == RoundTripSave(1) \/ RoundTripLoad(1)

SpecRoundTrip == InitRoundTrip /\ [][NextRoundTrip]_vars

----------------------------------------------------------------------------
\* The network calls of one invocation

\* The time sources in the order get_server_time asks them, and the
\* endpoints of the license authority.
TimeSources == << "worldtimeapi.org", "cloudflare.com", "www.google.com" >>
ActivationUrl == "license-keys/activate"
ValidationUrl == "license-keys/validate"

\* What each time source would answer if it were asked.
AllReadings == OptTimes \X OptTimes \X OptTimes

NoResponse == Response(FALSE, 0, FALSE, "", "")

\* The commands that go to the network: get_status on its trial branch and
\* start_trial fetch the time, activate and validate ask the authority.
NetworkCommands == { "get_status", "start_trial", "activate", "validate" }

\* One command is invoked; srcs and resp are what the network would answer,
\* asked is the list of the requests sent so far.
InitNetwork ==
    /\ \E call \in NetworkCommands :
          IF call \in { "get_status", "start_trial" }
          THEN \E srcs \in AllReadings :
                  local = [p \in Procs |->
                             [ call |-> call, srcs |-> srcs, resp |-> NoResponse,
                               asked |-> << >> ]]
          ELSE \E resp \in Responses :
                  local = [p \in Procs |->
                             [ call |-> call, srcs |-> << None, None, None >>,
                               resp |-> resp, asked |-> << >> ]]
    /\ pc = [p \in Procs |-> "net_start"]
    /\ ret = [p \in Procs |-> NoReturn]
    /\ file = AbsentFile
    /\ seen = None
    /\ expiredAt = None
    /\ issued = 0

\* The network part of the invocation ends with a result.
NetworkDone(p, name, ok, err, fetched) ==
    /\ pc' = [pc EXCEPT ![p] = "net_done"]
    /\ ret' = [ret EXCEPT ![p] =
                 Returned(name, ok, "none", 0, err, None, fetched, None)]

\* get_server_time: the GET to worldtimeapi.org.
GetWorldTime(p) ==
    /\ pc[p] = "net_start"
    /\ local[p].call \in { "get_status", "start_trial" }
    /\ local' = [local EXCEPT ![p].asked = << TimeSources[1] >>]
    /\ IF local[p].srcs[1] # None
       THEN NetworkDone(p, "get_server_time", TRUE, "", local[p].srcs[1])
       ELSE /\ pc' = [pc EXCEPT ![p] = "net_fallback"]
            /\ UNCHANGED ret
    /\ UNCHANGED <<file, seen, expiredAt, issued>>

\* Variant: a fallback host that does not answer is asked again.
HeadFallback_AsksAgain(p) ==
    /\ pc[p] = "net_fallback"
    /\ LET i == IF Len(local[p].asked) < 3 THEN Len(local[p].asked) + 1 ELSE 3
       IN  /\ local' = [local EXCEPT ![p].asked = Append(@, TimeSources[i])]
           /\ IF local[p].srcs[i] # None
              THEN NetworkDone(p, "get_server_time", TRUE, "", local[p].srcs[i])
              ELSE IF Len(local[p].asked) >= 3
              THEN NetworkDone(p, "get_server_time", FALSE,
                               "Could not fetch server time. Please check your internet connection.",
                               None)
              ELSE UNCHANGED <<pc, ret>>
    /\ UNCHANGED <<file, seen, expiredAt, issued>>

\* get_server_time: one turn of the loop over fallback_urls, a HEAD to the
\* next host; after the last host the error.
HeadFallback(p) ==
    /\ pc[p] = "net_fallback"
    /\ LET i == Len(local[p].asked) + 1
       IN  /\ local' = [local EXCEPT ![p].asked = Append(@, TimeSources[i])]
           /\ IF local[p].srcs[i] # None
              THEN NetworkDone(p, "get_server_time", TRUE, "", local[p].srcs[i])
              ELSE IF i = 3
              THEN NetworkDone(p, "get_server_time", FALSE,
                               "Could not fetch server time. Please check your internet connection.",
                               None)
              ELSE UNCHANGED <<pc, ret>>
    /\ UNCHANGED <<file, seen, expiredAt, issued>>

\* activate_with_polar: the device id, then the one POST and its answer.
PostActivation(p, devOk) ==
    /\ pc[p] = "net_start"
    /\ local[p].call = "activate"
    /\ IF ~devOk
       THEN /\ NetworkDone(p, "activate_with_polar", FALSE, "Failed to get device ID", None)
            /\ UNCHANGED local
       ELSE LET r == activate_with_polar(local[p].resp)
            IN  /\ local' = [local EXCEPT ![p].asked = << ActivationUrl >>]
                /\ NetworkDone(p, "activate_with_polar", r.ok, r.err, None)
    /\ UNCHANGED <<file, seen, expiredAt, issued>>

\* validate_with_polar: the one POST and its answer.
PostValidation(p) ==
    /\ pc[p] = "net_start"
    /\ local[p].call = "validate"
    /\ LET r == validate_with_polar(local[p].resp)
       IN  /\ local' = [local EXCEPT ![p].asked = << ValidationUrl >>]
           /\ NetworkDone(p, "validate_with_polar", r.ok, r.err, None)
    /\ UNCHANGED <<file, seen, expiredAt, issued>>

NextNetwork ==
    \/ GetWorldTime(1)
    \/ HeadFallback(1)
    \/ \E devOk \in BOOLEAN : PostActivation(1, devOk)
    \/ PostValidation(1)

SpecNetwork == InitNetwork /\ [][NextNetwork]_vars

\* Commands overlap: the front end invokes a command while another is
\* suspended (the status poll of the UI and a command of the user), and the
\* runtime runs the two tasks in any order.
NextConc == \E p \in Procs : Step(p)

SpecConc == Init /\ [][NextConc]_vars

----------------------------------------------------------------------------
\* Properties

\* The persisted record, when the file holds one.
HasRecord == file.kind = "ok"
Record == file.content

\* The readings of the time sources in which no source answers.
FailedReadings == { srcs \in SourceReadings : get_server_time(srcs) = None }

\* Task p has just returned from the trial branch of get_license_status.
TrialBranchReturns(p) == pc[p] = "gs_fetch" /\ pc'[p] = "idle"

\* C1: get_status on an activated record (is_activated, license key present)
\* validated at L returns Activated while the local time is in
\* [L, L + 7 days) and RequiresValidation from L + 7 days on; the 3-day
\* boundary changes nothing.
C1_ActivatedUntilSevenDays ==
    [][\A p \in Procs, t \in Times :
         ( /\ HasRecord
           /\ Record.is_activated
           /\ Record.license_key # None
           /\ Record.last_validated_at # None
           /\ t >= Get(Record.last_validated_at)
           /\ GetStatusCall(p, t) )
         => LET L == Get(Record.last_validated_at)
            IN  /\ ret'[p].op = "get_status"
                /\ t - L < 7 * 86400 => ret'[p].status = "Activated"
                /\ t - L >= 7 * 86400 => ret'[p].status = "RequiresValidation"]_vars

\* C1, reached: get_status answered RequiresValidation exactly 7 days after
\* the last validation of an activated record.
C1_Witness ==
    \E p \in Procs :
        /\ ret[p].op = "get_status"
        /\ ret[p].status = "RequiresValidation"
        /\ HasRecord /\ Record.is_activated /\ Record.last_validated_at # None
        /\ ret[p].clock = Some(Get(Record.last_validated_at) + 7 * 86400)

\* C2 as the specification words it: days_elapsed is the floor of
\* (now - T) / 86400, and below 7 the status is Trial with
\* days_remaining = 7 - days_elapsed.
C2_FloorDays ==
    [][\A p \in Procs :
         TrialBranchReturns(p)
         => LET T == Get(local[p].state.trial_start_utc)
                now == Get(ret'[p].now)
                floor_days == (now - T) \div 86400
            IN  floor_days < 7
                => /\ ret'[p].status = "Trial"
                   /\ ret'[p].days_remaining = 7 - floor_days]_vars

\* C2, amended: days_elapsed is (now - T) / 86400 rounded toward zero (the
\* floor whenever now >= T); below 7 the status is Trial with
\* days_remaining = 7 - days_elapsed; a trusted time of T + 6 days gives 1 day
\* and a trusted time of T gives 7.
C2_TruncatedDays ==
    [][\A p \in Procs :
         TrialBranchReturns(p)
         => LET T == Get(local[p].state.trial_start_utc)
                now == Get(ret'[p].now)
                days == IF now >= T THEN (now - T) \div 86400
                        ELSE 0 - ((T - now) \div 86400)
            IN  /\ days < 7
                   => /\ ret'[p].status = "Trial"
                      /\ ret'[p].days_remaining = 7 - days
                /\ ret'[p].fetched = Some(T + 6 * 86400)
                   => /\ ret'[p].status = "Trial"
                      /\ ret'[p].days_remaining = 1
                /\ ret'[p].fetched = Some(T)
                   => /\ ret'[p].status = "Trial"
                      /\ ret'[p].days_remaining = 7]_vars

\* C2, reached: get_status obtained the trusted time T + 6 days on a trial
\* started at T and answered Trial with one day left.
C2_Witness ==
    \E p \in Procs :
        /\ ret[p].op = "get_status"
        /\ ret[p].status = "Trial"
        /\ ret[p].days_remaining = 1
        /\ HasRecord /\ ~Record.is_activated /\ Record.trial_start_utc # None
        /\ ret[p].fetched = Some(Get(Record.trial_start_utc) + 6 * 86400)

\* C3: get_status at the trusted time T + 7 days returns TrialExpired, and
\* once TrialExpired was returned (at effective time e, no reset since) a
\* get_status at an effective time of e or later never returns Trial.
C3_ExpiredStaysExpired ==
    [][\A p \in Procs :
         TrialBranchReturns(p)
         => LET T == Get(local[p].state.trial_start_utc)
            IN  /\ ret'[p].fetched = Some(T + 7 * 86400)
                   => ret'[p].status = "TrialExpired"
                /\ ( expiredAt # None /\ Get(ret'[p].now) >= Get(expiredAt) )
                   => ret'[p].status # "Trial"]_vars

\* C3, reached: after a TrialExpired answer, a later get_status at a strictly
\* later effective time answered TrialExpired again.
C3_Witness ==
    \E p \in Procs :
        /\ ret[p].op = "get_status"
        /\ ret[p].status = "TrialExpired"
        /\ expiredAt # None
        /\ Get(ret[p].now) > Get(expiredAt)

\* C4: the effective time get_status computes a trial status from is never
\* below the highest trusted timestamp an earlier operation obtained (the one
\* start_trial fetched included), wherever the local clock stands.  Stated
\* for the readings that do not themselves go back in time: the sources
\* either fail now or answer with a time not below that mark.
C4_NeverBelowTrustedTime ==
    [][\A p \in Procs :
         ( /\ TrialBranchReturns(p)
           /\ seen # None
           /\ ret'[p].fetched # None => Get(ret'[p].fetched) >= Get(seen) )
         => Get(ret'[p].now) >= Get(seen)]_vars

\* C5: when no time source answers, get_status computes the trial status
\* from the later of the local time and last_server_time_check (the local
\* time when none is stored): a clock set back below the stored check does
\* not lower the effective time.
C5_FallbackIsMax ==
    [][\A p \in Procs, srcs \in FailedReadings, t \in Times :
         ( /\ TrialBranchReturns(p)
           /\ GetStatusResume(p, srcs, t, TRUE) )
         => LET S == local[p].state.last_server_time_check
                T == Get(local[p].state.trial_start_utc)
                effective == IF S # None /\ Get(S) > t THEN Get(S) ELSE t
            IN  /\ ret'[p].now = Some(effective)
                /\ ret'[p].status = "TrialExpired" <=> effective - T >= 7 * 86400
                /\ ret'[p].status \in { "Trial", "TrialExpired" }]_vars

\* C5, reached: with last_server_time_check = S stored and the local clock
\* 100 days before S, get_status without network resolved the trial from S.
C5_Witness ==
    \E p \in Procs :
        /\ ret[p].op = "get_status"
        /\ ret[p].fetched = None
        /\ HasRecord /\ Record.last_server_time_check # None
        /\ ret[p].clock = Some(Get(Record.last_server_time_check) - 100 * 86400)
        /\ ret[p].now = Record.last_server_time_check

\* C6: no write of the record lowers last_server_time_check (reset, which
\* removes the record, aside).
C6_ServerTimeCheckMonotonic ==
    [][( /\ HasRecord
         /\ Record.last_server_time_check # None
         /\ file'.kind = "ok" )
       => /\ file'.content.last_server_time_check # None
          /\ Get(file'.content.last_server_time_check)
               >= Get(Record.last_server_time_check)]_vars

\* C7: start_trial on a record whose trial_start_utc is set fails, with
\* "Trial already started" when the trusted time was obtained, and leaves the
\* file as it was.
C7_SecondStartTrialFails ==
    [][\A p \in Procs, srcs \in SourceReadings :
         ( /\ pc[p] = "st_fetch"
           /\ HasRecord
           /\ Record.trial_start_utc # None
           /\ StartTrialResume(p, srcs) )
         => /\ pc'[p] = "idle"
            /\ ret'[p].op = "start_trial"
            /\ ~ret'[p].ok
            /\ get_server_time(srcs) # None => ret'[p].err = "Trial already started"
            /\ file' = file]_vars

\* C7, reached: start_trial was refused on a record that holds a trial
\* start (written by the first, successful start_trial).
C7_Witness ==
    \E p \in Procs :
        /\ ret[p].op = "start_trial"
        /\ ~ret[p].ok
        /\ ret[p].err = "Trial already started"
        /\ HasRecord /\ Record.trial_start_utc # None

\* C8: once trial_start_utc is set, no step other than the removal of the
\* file by reset changes it.
C8_TrialStartImmutable ==
    [][( /\ HasRecord
         /\ Record.trial_start_utc # None
         /\ file'.kind # "absent" )
       => /\ file'.kind = "ok"
          /\ file'.content.trial_start_utc = Record.trial_start_utc]_vars

\* C8, reached: a trial was started, get_status wrote its server time check
\* and activate wrote the license, and the trial start is still there.
C8_Witness ==
    /\ HasRecord
    /\ Record.trial_start_utc # None
    /\ Record.last_server_time_check # None
    /\ Record.is_activated
    /\ \E p \in Procs : ret[p].op = "activate" /\ ret[p].ok

\* C9: when the request of validate fails in transport, validate returns
\* Ok(Activated) if the local time is less than 7 days after
\* last_validated_at, and the error if it is 7 days and a second or more
\* after it, or if last_validated_at is absent.
C9_TransportErrorLeniency ==
    [][\A p \in Procs, resp \in Responses, t \in Times :
         ( /\ pc[p] = "val_polar"
           /\ ~resp.sent
           /\ ValidateResume(p, resp, t) )
         => LET L == local[p].state.last_validated_at
            IN  /\ ( L # None /\ t - Get(L) < 7 * 86400 )
                   => ret'[p].ok /\ ret'[p].status = "Activated"
                /\ ( L = None \/ t - Get(L) >= 7 * 86400 + 1 )
                   => ~ret'[p].ok /\ ret'[p].err = "Network error"
                /\ file' = file]_vars

\* C9, reached: validate failed in transport 7 days and 1 second after the
\* last validation and returned the error.
C9_Witness ==
    \E p \in Procs :
        /\ ret[p].op = "validate"
        /\ ~ret[p].ok
        /\ ret[p].err = "Network error"
        /\ HasRecord /\ Record.last_validated_at # None
        /\ ret[p].clock = Some(Get(Record.last_validated_at) + 7 * 86400 + 1)

\* C10: when the authority answers validate with HTTP 400, 401, 403 or 404,
\* validate returns an error, however recent last_validated_at is.
C10_NoLeniencyOnRejection ==
    [][\A p \in Procs, resp \in Responses, t \in Times :
         ( /\ pc[p] = "val_polar"
           /\ resp.sent
           /\ resp.code \in { 400, 401, 403, 404 }
           /\ ValidateResume(p, resp, t) )
         => ~ret'[p].ok]_vars

\* The answers of the authority that parse and carry a status other than
\* "granted".
NotGrantedResponses ==
    { resp \in Responses : resp.sent /\ is_success(resp.code) /\ resp.parsed
                             /\ resp.status # "granted" }

\* C11: when the authority answers validate with a parsed 2xx body whose
\* status is not "granted", validate returns the error "License is no longer
\* valid" at every local time, however recent last_validated_at is, and
\* does not write the record.
C11_InvalidIsHardError ==
    [][\A p \in Procs, resp \in NotGrantedResponses, t \in Times :
         ( /\ pc[p] = "val_polar"
           /\ ValidateResume(p, resp, t) )
         => /\ pc'[p] = "idle"
            /\ ~ret'[p].ok
            /\ ret'[p].err = "License is no longer valid"
            /\ file' = file]_vars

\* C11, reached: validate returned the hard error on an activated record
\* that holds a last_validated_at, which any local time up to 7 days after
\* it would have put within the grace period.
C11_Witness ==
    \E p \in Procs :
        /\ ret[p].op = "validate"
        /\ ~ret[p].ok
        /\ ret[p].err = "License is no longer valid"
        /\ HasRecord /\ Record.is_activated
        /\ Record.last_validated_at # None

\* C12: with a license file that does not parse, get_status returns
\* NoLicense, and no command returns the error of the load.
C12_CorruptLoadsAsEmpty ==
    [][\A p \in Procs :
         ( /\ file.kind = "corrupt"
           /\ ret'[p] # ret[p] )
         => /\ ret'[p].op = "get_status" => ret'[p].status = "NoLicense"
            /\ ret'[p].err # "load failed"]_vars

\* C13: a get_status that returns from its trusted-time fetch and writes
\* over a record writes that record as it is in the file at that moment,
\* with last_server_time_check
\* set, whatever other command ran in between; in particular an activated
\* record in the file is still activated, with the same key, afterwards.
C13_StatusPollSavesFreshRecord ==
    [][\A p \in Procs :
         ( /\ pc[p] = "gs_fetch"
           /\ pc'[p] = "idle"
           /\ HasRecord
           /\ file' # file )
         => /\ file'.kind = "ok"
            /\ file'.content =
                   WithServerTime(LoadState(file), Get(ret'[p].fetched))
            /\ LoadState(file).is_activated
                   => /\ file'.content.is_activated
                      /\ file'.content.license_key = LoadState(file).license_key]_vars

\* C14: whenever the persisted record has is_activated, it holds a
\* license_key and an activated_at; and the only step after which the record
\* has is_activated when it did not before is the save of an
\* activate_license that returns Ok(Activated).
C14_ActivatedHasKeyAndTime ==
    /\ []( ( HasRecord /\ Record.is_activated )
             => /\ Record.license_key # None
                /\ Record.activated_at # None )
    /\ [][( /\ ~LoadState(file).is_activated
            /\ file'.kind = "ok"
            /\ file'.content.is_activated )
          => \E p \in Procs :
                /\ pc[p] = "act_save"
                /\ pc'[p] = "idle"
                /\ ret'[p].op = "activate"
                /\ ret'[p].ok
                /\ ret'[p].status = "Activated"]_vars

\* C14, reached: an activated record, with its key and activated_at, that a
\* later get_status read and reported on.
C14_Witness ==
    /\ HasRecord
    /\ Record.is_activated
    /\ Record.license_key # None
    /\ Record.activated_at # None
    /\ \E p \in Procs :
          /\ ret[p].op = "get_status"
          /\ ret[p].status \in { "Activated", "RequiresValidation" }

\* The answers of the authority that grant: a parsed 2xx body with status
\* "granted".
GrantedResponses ==
    { resp \in Responses : resp.sent /\ is_success(resp.code) /\ resp.parsed
                             /\ resp.status = "granted" }

\* C15: activate(key), granted by the authority with id resp.id at local
\* time t, builds from the loaded record a record with license_key = key,
\* activation_id = resp.id, device_id = the machine id, is_activated, and
\* activated_at = last_validated_at = t; its save writes exactly that record
\* and the call returns Activated; and a get_status that follows the
\* returned activate, at a local time less than 7 days past t, returns
\* Activated.
C15_ActivatePostcondition ==
    [][\A p \in Procs :
         /\ \A key \in Keys :
               ( pc[p] = "idle" /\ ActivateCall(p, key, TRUE) )
               => pc'[p] = "act_polar" /\ local'[p].key = Some(key)
         /\ \A resp \in GrantedResponses, t \in Times :
               ( /\ pc[p] = "act_polar"
                 /\ LoadOk(file)
                 /\ ActivateResume(p, resp, TRUE, t) )
               => /\ pc'[p] = "act_save"
                  /\ local'[p].state.license_key = local[p].key
                  /\ local'[p].state.activation_id = Some(resp.id)
                  /\ local'[p].state.device_id = Some(MachineUid)
                  /\ local'[p].state.is_activated
                  /\ local'[p].state.activated_at = Some(t)
                  /\ local'[p].state.last_validated_at = Some(t)
                  /\ local'[p].t = Some(t)
         /\ ( pc[p] = "act_save" /\ ActivateSave(p, TRUE) )
               => /\ file' = [ kind |-> "ok", content |-> local[p].state ]
                  /\ ret'[p].ok
                  /\ ret'[p].status = "Activated"
         /\ \A t \in Times :
               ( /\ pc[p] = "idle"
                 /\ ret[p].op = "activate"
                 /\ ret[p].ok
                 /\ t < Get(ret[p].clock) + 7 * 86400
                 /\ GetStatusCall(p, t) )
               => ret'[p].status = "Activated"]_vars

\* C15, reached: get_status returned Activated at the very local time at
\* which the record in the file was activated with key-2, the authority's
\* id and the machine id.
C15_Witness ==
    \E p \in Procs :
        /\ ret[p].op = "get_status"
        /\ ret[p].status = "Activated"
        /\ HasRecord
        /\ Record.is_activated
        /\ Record.license_key = Some("key-2")
        /\ Record.activation_id = Some("act-1")
        /\ Record.device_id = Some(MachineUid)
        /\ Record.activated_at = ret[p].clock
        /\ Record.last_validated_at = ret[p].clock

\* The answers to activate that are not a grant: no answer, a 4xx, a 5xx, a
\* body that does not parse, a status other than "granted".
RefusedResponses == Responses \ GrantedResponses

\* C16: when the authority does not grant the activation (transport error,
\* 4xx, 5xx, unparsable body, status other than "granted"), activate returns
\* an error, never Activated, and the file is left as it was.
C16_FailedActivateChangesNothing ==
    [][\A p \in Procs :
         /\ ( pc[p] = "idle" /\ pc'[p] = "act_polar" ) => file' = file
         /\ \A resp \in RefusedResponses, devOk \in BOOLEAN :
               ( /\ pc[p] = "act_polar"
                 /\ ActivateResume(p, resp, devOk, 0) )
               => /\ pc'[p] = "idle"
                  /\ ret'[p].op = "activate"
                  /\ ~ret'[p].ok
                  /\ ret'[p].status # "Activated"
                  /\ ret'[p].err # ""
                  /\ file' = file]_vars

\* C16, reached: activate failed with the error of a 5xx answer on a file
\* that holds a record.
C16_Witness ==
    \E p \in Procs :
        /\ ret[p].op = "activate"
        /\ ~ret[p].ok
        /\ ret[p].err = "License server temporarily unavailable. Please try again."
        /\ HasRecord

\* The readings of the time sources in which some source answers.
AnsweredReadings == SourceReadings \ FailedReadings

\* C17: when no time source answers, start_trial returns the error of the
\* fetch and leaves the file as it was, whatever the record holds; when one
\* answers and the record holds no trial start, start_trial writes the
\* loaded record with trial_start_utc set to exactly the time fetched and
\* returns Trial{days_remaining = 7}.  get_status, when no source answers,
\* still returns a trial status.
C17_StartTrialNeedsTrustedTime ==
    [][\A p \in Procs :
         /\ \A srcs \in FailedReadings :
               ( pc[p] = "st_fetch" /\ StartTrialResume(p, srcs) )
               => /\ pc'[p] = "idle"
                  /\ ~ret'[p].ok
                  /\ ret'[p].err = "Could not fetch server time. Please check your internet connection."
                  /\ file' = file
         /\ \A srcs \in AnsweredReadings :
               ( /\ pc[p] = "st_fetch"
                 /\ LoadOk(file)
                 /\ LoadState(file).trial_start_utc = None
                 /\ StartTrialResume(p, srcs) )
               => /\ pc'[p] = "st_save"
                  /\ local'[p].t = get_server_time(srcs)
                  /\ local'[p].state =
                         [ LoadState(file) EXCEPT
                             !.trial_start_utc = get_server_time(srcs) ]
                  /\ file' = file
         /\ ( pc[p] = "st_save" /\ StartTrialSave(p, TRUE) )
               => /\ file' = [ kind |-> "ok", content |-> local[p].state ]
                  /\ ret'[p].ok
                  /\ ret'[p].status = "Trial"
                  /\ ret'[p].days_remaining = 7
         /\ \A srcs \in FailedReadings, t \in Times :
               ( pc[p] = "gs_fetch" /\ GetStatusResume(p, srcs, t, TRUE) )
               => /\ ret'[p].ok
                  /\ ret'[p].status \in { "Trial", "TrialExpired" }]_vars

\* C17, reached: start_trial failed for want of a trusted time on a record
\* that holds a last_server_time_check it could have fallen back to.
C17_Witness ==
    \E p \in Procs :
        /\ ret[p].op = "start_trial"
        /\ ~ret[p].ok
        /\ ret[p].err = "Could not fetch server time. Please check your internet connection."
        /\ HasRecord
        /\ Record.last_server_time_check # None

\* C18: validate, granted by the authority at local time t, builds from the
\* record it loads again the same record with last_validated_at = t and no
\* other field changed; its save writes exactly that record and the call
\* returns Activated; and a get_status that follows the returned validate,
\* at a local time less than 7 days past t, returns Activated.
C18_ValidatePostcondition ==
    [][\A p \in Procs :
         /\ \A resp \in GrantedResponses, t \in Times :
               ( /\ pc[p] = "val_polar"
                 /\ LoadOk(file)
                 /\ ValidateResume(p, resp, t) )
               => /\ pc'[p] = "val_save"
                  /\ local'[p].state =
                         [ LoadState(file) EXCEPT !.last_validated_at = Some(t) ]
                  /\ local'[p].t = Some(t)
                  /\ file' = file
         /\ ( pc[p] = "val_save" /\ ValidateSave(p, TRUE) )
               => /\ file' = [ kind |-> "ok", content |-> local[p].state ]
                  /\ ret'[p].ok
                  /\ ret'[p].status = "Activated"
                  /\ ret'[p].clock = local[p].state.last_validated_at
         /\ \A t \in Times :
               ( /\ pc[p] = "idle"
                 /\ ret[p].op = "validate"
                 /\ ret[p].ok
                 /\ HasRecord
                 /\ Record.last_validated_at = ret[p].clock
                 /\ t < Get(ret[p].clock) + 7 * 86400
                 /\ GetStatusCall(p, t) )
               => ret'[p].status = "Activated"]_vars

\* C18, reached: get_status returned Activated at the local time of the
\* validation just written, 7 days or more after the activation: at that
\* local time the record as it was before the validation (validated at
\* activation only) required validation.
C18_Witness ==
    \E p \in Procs :
        /\ ret[p].op = "get_status"
        /\ ret[p].status = "Activated"
        /\ HasRecord
        /\ Record.is_activated
        /\ Record.last_validated_at = ret[p].clock
        /\ Record.activated_at # None
        /\ Get(ret[p].clock) - Get(Record.activated_at) >= 7 * 86400

\* C19: validate on a record without license_key (the file absent
\* included) returns the error "No license to validate" at once: it is not
\* suspended in a request to the authority, and the file is left as it was.
C19_ValidateNeedsKey ==
    [][\A p \in Procs :
         ( /\ pc[p] = "idle"
           /\ LoadOk(file)
           /\ LoadState(file).license_key = None
           /\ ValidateCall(p) )
         => /\ pc'[p] = "idle"
            /\ ret'[p].op = "validate"
            /\ ~ret'[p].ok
            /\ ret'[p].err = "No license to validate"
            /\ file' = file]_vars

\* C19, reached: validate was refused on a record that holds a trial but
\* no license key.
C19_Witness ==
    \E p \in Procs :
        /\ ret[p].op = "validate"
        /\ ~ret[p].ok
        /\ ret[p].err = "No license to validate"
        /\ HasRecord
        /\ Record.trial_start_utc # None
        /\ Record.license_key = None

\* C20: the steps of the scenario.  On a fresh install (no file) get_status
\* returns NoLicense and writes nothing; start_trial, answered by a time
\* source with T, then writes a record that holds trial_start_utc = T and
\* nothing else, and returns Trial{7}; and a get_status on a record whose
\* trial started at T, computed at the effective time T + 3 * 86400,
\* returns Trial{days_remaining = 4}.
C20_FreshInstallToDayThree ==
    [][\A p \in Procs :
         /\ \A t \in Times :
               ( /\ pc[p] = "idle"
                 /\ file = AbsentFile
                 /\ GetStatusCall(p, t) )
               => /\ pc'[p] = "idle"
                  /\ ret'[p].ok
                  /\ ret'[p].status = "NoLicense"
                  /\ file' = file
         /\ \A srcs \in AnsweredReadings :
               ( /\ pc[p] = "st_fetch"
                 /\ file = AbsentFile
                 /\ StartTrialResume(p, srcs) )
               => /\ pc'[p] = "st_save"
                  /\ local'[p].t = get_server_time(srcs)
                  /\ local'[p].state =
                         [ DefaultState EXCEPT
                             !.trial_start_utc = get_server_time(srcs) ]
         /\ ( /\ pc[p] = "st_save"
              /\ file = AbsentFile
              /\ StartTrialSave(p, TRUE) )
               => /\ file' = [ kind |-> "ok", content |-> local[p].state ]
                  /\ ret'[p].ok
                  /\ ret'[p].status = "Trial"
                  /\ ret'[p].days_remaining = 7
                  /\ ret'[p].fetched = local[p].t
         /\ ( /\ TrialBranchReturns(p)
              /\ ret'[p].now =
                     Some(Get(local[p].state.trial_start_utc) + 3 * 86400) )
               => /\ ret'[p].ok
                  /\ ret'[p].status = "Trial"
                  /\ ret'[p].days_remaining = 4]_vars

\* C20, reached: the state the scenario ends in.  Three commands were
\* invoked, the file holds a trial started at T = Base and no license, and
\* the last command, get_status at the effective time T + 3 * 86400,
\* returned Trial{days_remaining = 4}.
C20_Witness ==
    \E p \in Procs :
        /\ issued = 3
        /\ HasRecord
        /\ Record.trial_start_utc = Some(Base)
        /\ ~Record.is_activated
        /\ Record.license_key = None
        /\ ret[p].op = "get_status"
        /\ ret[p].now = Some(Base + 3 * 86400)
        /\ ret[p].status = "Trial"
        /\ ret[p].days_remaining = 4

\* A reset that returns Ok(()).
ResetSucceeds(p) ==
    /\ pc[p] = "idle"
    /\ pc'[p] = "idle"
    /\ issued' = issued + 1
    /\ ret'[p].op = "reset"
    /\ ret'[p].ok

\* C21: after a reset that returns Ok, whatever the file held before (a
\* record, bytes that do not parse, nothing), a load succeeds and returns a
\* record with every optional field absent and is_activated = false.
C21_LoadAfterResetIsDefault ==
    [][\A p \in Procs :
         ResetSucceeds(p)
         => /\ LoadOk(file')
            /\ LET state == LoadState(file')
               IN  /\ state.license_key = None
                   /\ state.activation_id = None
                   /\ state.device_id = None
                   /\ state.trial_start_utc = None
                   /\ state.last_validated_at = None
                   /\ state.activated_at = None
                   /\ ~state.is_activated
                   /\ state.last_server_time_check = None]_vars

\* C21, reached: reset returned Ok as the third command, after a time source
\* had answered an earlier command, and there is no file.
C21_Witness ==
    \E p \in Procs :
        /\ ret[p].op = "reset"
        /\ ret[p].ok
        /\ issued = 3
        /\ seen # None
        /\ file = AbsentFile

\* C22: reset with no file returns Ok and leaves everything but its own
\* return as it was; and a reset that returns Ok leaves no file, so that a
\* second reset is a reset with no file.
C22_ResetIdempotent ==
    [][\A p \in Procs, ioOk \in BOOLEAN :
         /\ ( /\ pc[p] = "idle"
              /\ file.kind = "absent"
              /\ ResetLicense(p, ioOk) )
            => /\ ret'[p].ok
               /\ file' = file
               /\ seen' = seen
               /\ expiredAt' = expiredAt
         /\ ( /\ pc[p] = "idle"
              /\ ResetLicense(p, ioOk)
              /\ ret'[p].ok )
            => file' = AbsentFile]_vars

\* C22, reached: two commands ran, no time source was asked with success,
\* reset returned Ok last and there is no file (reset; reset from a file
\* that does not parse ends here).
C22_Witness ==
    \E p \in Procs :
        /\ ret[p].op = "reset"
        /\ ret[p].ok
        /\ issued = 2
        /\ seen = None
        /\ file = AbsentFile

\* C23: a load of the document a save wrote succeeds and returns the record
\* that was saved, all eight fields equal; and a save of a record just
\* loaded leaves a document that denotes the same record as the one that
\* was in the file.
C23_RoundTrip ==
    [][\A p \in Procs :
         /\ ( /\ pc[p] = "saved"
              /\ file.content = to_string_pretty(local[p].state)
              /\ RoundTripLoad(p) )
            => /\ ret'[p].ok
               /\ \A name \in DOMAIN DefaultState :
                     local'[p].state[name] = local[p].state[name]
         /\ ( pc[p] = "loaded" /\ RoundTripSave(p) )
            => /\ from_str(file'.content) # {}
               /\ from_str(file'.content) = from_str(file.content)]_vars

\* C23, reached: a record with a key, a trial start before the epoch and a
\* validation time was saved, loaded back equal and saved again, and the
\* file holds its document.
C23_Witness ==
    \E p \in Procs :
        /\ pc[p] = "resaved"
        /\ ret[p].op = "load"
        /\ ret[p].ok
        /\ file.content = to_string_pretty(local[p].state)
        /\ from_str(file.content) = { local[p].state }
        /\ local[p].state.license_key = Some("key-1")
        /\ local[p].state.trial_start_utc = Some(-1)
        /\ local[p].state.last_validated_at = Some(Base)
        /\ local[p].state.last_server_time_check = None
        /\ local[p].state.is_activated

\* The last command of task p was an activate that failed for want of a
\* device id.
DeviceIdFailed(p) ==
    /\ ret[p].op = "activate"
    /\ ~ret[p].ok
    /\ ret[p].err = "Failed to get device ID"

\* C24: when the device id cannot be read, activate returns an error and
\* leaves the file as it was, before the request is sent as well as after a
\* grant; and after such a failure the trial commands run as they always
\* do: start_trial goes on to its time fetch and, saved, returns Trial{7},
\* and get_status on a trial record goes on to its time fetch and returns a
\* trial status.
C24_DeviceIdBlocksOnlyActivation ==
    [][\A p \in Procs :
         /\ \A key \in Keys :
               ( pc[p] = "idle" /\ ActivateCall(p, key, FALSE) )
               => /\ pc'[p] = "idle"
                  /\ ~ret'[p].ok
                  /\ ret'[p].err = "Failed to get device ID"
                  /\ file' = file
         /\ \A resp \in GrantedResponses :
               ( pc[p] = "act_polar" /\ ActivateResume(p, resp, FALSE, 0) )
               => /\ pc'[p] = "idle"
                  /\ ~ret'[p].ok
                  /\ ret'[p].err = "Failed to get device ID"
                  /\ file' = file
         /\ ( DeviceIdFailed(p) /\ pc[p] = "idle" /\ StartTrialCall(p) )
               => pc'[p] = "st_fetch"
         /\ ( DeviceIdFailed(p) /\ pc[p] = "st_save" /\ StartTrialSave(p, TRUE) )
               => /\ ret'[p].ok
                  /\ ret'[p].status = "Trial"
                  /\ ret'[p].days_remaining = 7
         /\ \A t \in Times :
               ( /\ DeviceIdFailed(p)
                 /\ pc[p] = "idle"
                 /\ HasRecord
                 /\ ~Record.is_activated
                 /\ Record.trial_start_utc # None
                 /\ GetStatusCall(p, t) )
               => pc'[p] = "gs_fetch"
         /\ ( DeviceIdFailed(p) /\ TrialBranchReturns(p) )
               => /\ ret'[p].ok
                  /\ ret'[p].status \in { "Trial", "TrialExpired" }]_vars

\* C24, reached: a trial was started, an activate then failed for want of
\* a device id and left the record without a license, and the get_status
\* that followed is in its time fetch on the trial branch.
C24_Witness ==
    \E p \in Procs :
        /\ DeviceIdFailed(p)
        /\ pc[p] = "gs_fetch"
        /\ HasRecord
        /\ Record.trial_start_utc # None
        /\ ~Record.is_activated
        /\ Record.license_key = None

\* The time fetch of task p has ended.
FetchDone(p) == pc[p] = "net_done" /\ ret[p].op = "get_server_time"

\* C25: a finished get_server_time asked the sources in their order,
\* worldtimeapi.org first, up to and including the first one that yields a
\* time, and returned that one's time; it returned the error exactly when
\* no source yields a time, after asking all three; the value it returns is
\* the answer of a source it asked.
C25_FirstSourceThatAnswers ==
    \A p \in Procs :
        FetchDone(p)
        => LET srcs == local[p].srcs
               asked == local[p].asked
               n == Len(asked)
           IN  /\ n \in 1..3
               /\ asked = SubSeq(TimeSources, 1, n)
               /\ \A j \in 1..(n - 1) : srcs[j] = None
               /\ ret[p].ok <=> ( \E i \in 1..3 : srcs[i] # None )
               /\ ret[p].ok => srcs[n] # None /\ ret[p].fetched = srcs[n]
               /\ ~ret[p].ok => n = 3 /\ ret[p].fetched = None
               /\ ret[p].fetched = get_server_time(srcs)

\* C25, reached: worldtimeapi.org failed, cloudflare.com answered, and its
\* time was returned although www.google.com would have answered another.
C25_Witness ==
    \E p \in Procs :
        /\ FetchDone(p)
        /\ ret[p].ok
        /\ local[p].asked = << "worldtimeapi.org", "cloudflare.com" >>
        /\ ret[p].fetched = local[p].srcs[2]
        /\ local[p].srcs[3] # None
        /\ local[p].srcs[3] # local[p].srcs[2]

\* What a command can return: Ok with a LicenseStatus (Ok(()) for reset), or
\* an error with its message; get_status reports a failed load as the
\* status Error.
DefinedReturn(r) ==
    \/ /\ r.ok
       /\ r.err = ""
       /\ r.status \in { "NoLicense", "Trial", "Activated", "TrialExpired",
                          "RequiresValidation", "none" }
       /\ r.status = "none" <=> r.op \in { "reset", "none" }
    \/ r.ok /\ r.op = "get_status" /\ r.status = "Error" /\ r.err # ""
    \/ ~r.ok /\ r.err # "" /\ r.op # "get_status"

\* C26: given that every network call and every write to the file
\* resolves, a command that is waiting eventually returns, and what a
\* command has returned is always a status or an error.
C26_EveryCommandReturns ==
    /\ \A p \in Procs : ( pc[p] # "idle" ) ~> ( pc[p] = "idle" )
    /\ [](\A p \in Procs : DefinedReturn(ret[p]))

\* C26, reached: start_trial, whose time fetch found every source silent,
\* has returned its error.
C26_Witness ==
    \E p \in Procs :
        /\ pc[p] = "idle"
        /\ ret[p].op = "start_trial"
        /\ ~ret[p].ok
        /\ ret[p].err = "Could not fetch server time. Please check your internet connection."

\* C27: in one invocation no request is sent twice: activate sends at most
\* one request, to the activation endpoint, validate at most one, to the
\* validation endpoint, and a time fetch asks each source at most once,
\* whether the answers are successes or failures.
C27_NoRetry ==
    \A p \in Procs :
        LET asked == local[p].asked
        IN  /\ \A i, j \in 1..Len(asked) : asked[i] = asked[j] => i = j
            /\ local[p].call = "activate"
                  => asked \in { << >>, << ActivationUrl >> }
            /\ local[p].call = "validate"
                  => asked \in { << >>, << ValidationUrl >> }
            /\ local[p].call \in { "get_status", "start_trial" }
                  => \A i \in 1..Len(asked) :
                        \E k \in 1..3 : asked[i] = TimeSources[k]

\* C27, reached: validate sent its request, the request failed in
\* transport, and validate_with_polar returned the error after that one
\* request.
C27_Witness ==
    \E p \in Procs :
        /\ pc[p] = "net_done"
        /\ local[p].call = "validate"
        /\ ~local[p].resp.sent
        /\ ~ret[p].ok
        /\ ret[p].err = "Network error"
        /\ local[p].asked = << ValidationUrl >>

\* The status as a function of the record, the effective time and the
\* local time, and of nothing else.
PureStatus(record, now, clock) ==
    IF record.is_activated /\ record.license_key # None THEN
        [ status |-> IF /\ record.last_validated_at # None
                        /\ clock - Get(record.last_validated_at) >= 7 * 86400
                     THEN "RequiresValidation" ELSE "Activated",
          days_remaining |-> 0 ]
    ELSE IF record.trial_start_utc # None THEN
        LET d == now - Get(record.trial_start_utc)
        IN  IF d >= 7 * 86400
            THEN [ status |-> "TrialExpired", days_remaining |-> 0 ]
            ELSE [ status |-> "Trial",
                   days_remaining |-> IF d >= 0 THEN 7 - (d \div 86400)
                                      ELSE 7 + ((-d) \div 86400) ]
    ELSE [ status |-> "NoLicense", days_remaining |-> 0 ]

\* The values a record holds: for each of the eight fields a value of its
\* type, and no other field.
RecordType ==
    [ license_key : { None } \cup { Some(k) : k \in Keys },
      activation_id : { None } \cup { Some(a) : a \in ActivationIds },
      device_id : { None, Some(MachineUid) },
      trial_start_utc : OptTimes,
      last_validated_at : OptTimes,
      activated_at : OptTimes,
      is_activated : BOOLEAN,
      last_server_time_check : OptTimes ]

\* C28: the status get_status returns is PureStatus of the record it
\* loaded, its effective time and the local time it read, so that equal
\* records at equal times get equal statuses; and the file never holds
\* anything but the eight fields of the record, none of them a status.
C28_StatusIsPure ==
    /\ [](HasRecord => Record \in RecordType)
    /\ [][\A p \in Procs :
            /\ \A t \in Times :
                  ( /\ pc[p] = "idle"
                    /\ LoadOk(file)
                    /\ GetStatusCall(p, t)
                    /\ pc'[p] = "idle" )
                  => LET pure == PureStatus(LoadState(file), t, t)
                     IN  /\ ret'[p].status = pure.status
                         /\ ret'[p].days_remaining = pure.days_remaining
            /\ TrialBranchReturns(p)
                  => LET pure == PureStatus(local[p].state, Get(ret'[p].now),
                                            Get(ret'[p].now))
                     IN  /\ ret'[p].status = pure.status
                         /\ ret'[p].days_remaining = pure.days_remaining]_vars

\* C28, reached: three commands ran, the record is as activate wrote it
\* (never validated since), and get_status, the last of them, returned
\* RequiresValidation at a local time 7 days or more past the activation:
\* activate and the same get_status twice end here.
C28_Witness ==
    \E p \in Procs :
        /\ issued = 3
        /\ ret[p].op = "get_status"
        /\ ret[p].status = "RequiresValidation"
        /\ HasRecord
        /\ Record.is_activated
        /\ Record.last_validated_at = Record.activated_at
        /\ Record.trial_start_utc = None
        /\ Get(ret[p].clock) - Get(Record.last_validated_at) >= 7 * 86400

\* The last command of task p was a reset that returned Ok.
ResetReturned(p) == pc[p] = "idle" /\ ret[p].op = "reset" /\ ret[p].ok

StartTrialSucceeded(p) == ret[p].op = "start_trial" /\ ret[p].ok

\* C30: of two start_trial calls that overlap on an empty record at most
\* one returns Ok, and a trial start that is in the file is never replaced
\* by another.
C30_TrialStartSetOnce ==
    /\ []( issued = 2 => ~( StartTrialSucceeded(1) /\ StartTrialSucceeded(2) ) )
    /\ [][( /\ HasRecord
            /\ Record.trial_start_utc # None
            /\ file'.kind = "ok" )
          => file'.content.trial_start_utc = Record.trial_start_utc]_vars

\* C31: get_status on a record with is_activated set and a license_key
\* returns at once, with Activated or RequiresValidation, whatever
\* trial_start_utc and last_server_time_check hold: the trial branch is not
\* entered, no time source is asked and the file is left alone.
C31_ActivatedBeforeTrial ==
    [][\A p \in Procs : \A t \in Times :
         ( /\ pc[p] = "idle"
           /\ LoadOk(file)
           /\ LoadState(file).is_activated
           /\ LoadState(file).license_key # None
           /\ GetStatusCall(p, t) )
         => /\ pc'[p] = "idle"
            /\ ret'[p].op = "get_status"
            /\ ret'[p].status \in {"Activated", "RequiresValidation"}
            /\ ret'[p].fetched = None
            /\ file' = file]_vars

\* C31, reached: the record is activated and also holds a trial start that
\* lies more than seven days before the clock, and get_status returned
\* Activated.
C31_Witness ==
    \E p \in Procs :
        /\ HasRecord
        /\ Record.is_activated
        /\ Record.license_key # None
        /\ Record.trial_start_utc # None
        /\ ret[p].op = "get_status"
        /\ ret[p].status = "Activated"
        /\ ret[p].clock # None
        /\ Get(ret[p].clock) - Get(Record.trial_start_utc) >= TRIAL_DAYS * DAY

\* C32: get_status on an activated record whose last_validated_at is absent
\* returns Activated at every local time: the passage of time alone never
\* turns such a record into RequiresValidation.
C32_NeverValidatedStaysActivated ==
    [][\A p \in Procs : \A t \in Times :
         ( /\ pc[p] = "idle"
           /\ LoadOk(file)
           /\ LoadState(file).is_activated
           /\ LoadState(file).license_key # None
           /\ LoadState(file).last_validated_at = None
           /\ GetStatusCall(p, t) )
         => /\ pc'[p] = "idle"
            /\ ret'[p].ok
            /\ ret'[p].status = "Activated"]_vars

\* C32, reached: the record was activated at time 0 and never validated, and
\* get_status returned Activated more than 107 days later.
C32_Witness ==
    \E p \in Procs :
        /\ HasRecord
        /\ Record.is_activated
        /\ Record.license_key # None
        /\ Record.last_validated_at = None
        /\ Record.activated_at = Some(0)
        /\ ret[p].op = "get_status"
        /\ ret[p].status = "Activated"
        /\ ret[p].clock = Some(Base + EXTENDED_GRACE_SECS + 1)

\* The record get_status would load has neither an activation (is_activated
\* with a license_key) nor a trial start.
NoLicenseRecord ==
    /\ LoadOk(file)
    /\ ~( LoadState(file).is_activated /\ LoadState(file).license_key # None )
    /\ LoadState(file).trial_start_utc = None

\* C33: get_status returns NoLicense exactly when the record loads, is not
\* on the activated path and has no trial_start_utc; it then returns at
\* once, asks no time source and writes nothing.  A get_status that comes
\* back from the time sources never returns NoLicense.
C33_NoLicenseExactly ==
    [][\A p \in Procs :
         /\ \A t \in Times :
              ( pc[p] = "idle" /\ GetStatusCall(p, t) )
              => /\ NoLicenseRecord
                    <=> ( pc'[p] = "idle" /\ ret'[p].status = "NoLicense" )
                 /\ NoLicenseRecord
                    => /\ ret'[p].fetched = None
                       /\ seen' = seen
                       /\ file' = file
         /\ TrialBranchReturns(p) => ret'[p].status # "NoLicense"]_vars

\* C33, reached: on a fresh installation, with no file and no time source
\* ever asked, the first command was get_status and it returned NoLicense.
C33_Witness ==
    \E p \in Procs :
        /\ issued = 1
        /\ file = AbsentFile
        /\ seen = None
        /\ pc[p] = "idle"
        /\ ret[p].op = "get_status"
        /\ ret[p].status = "NoLicense"

\* C34: the time since the last validation is local time minus
\* last_validated_at, stopped at zero.  With the local clock earlier than
\* last_validated_at, get_status on an activated record returns Activated,
\* and a validate whose request fails in transport returns Ok(Activated).
C34_ClockBehindValidation ==
    [][\A p \in Procs : \A t \in Times :
         /\ ( /\ pc[p] = "idle"
              /\ LoadOk(file)
              /\ LoadState(file).is_activated
              /\ LoadState(file).license_key # None
              /\ LoadState(file).last_validated_at # None
              /\ t < Get(LoadState(file).last_validated_at)
              /\ GetStatusCall(p, t) )
            => /\ pc'[p] = "idle"
               /\ ret'[p].status = "Activated"
         /\ \A resp \in Responses :
              ( /\ pc[p] = "val_polar"
                /\ ~resp.sent
                /\ local[p].state.last_validated_at # None
                /\ t < Get(local[p].state.last_validated_at)
                /\ ValidateResume(p, resp, t) )
              => /\ ret'[p].ok
                 /\ ret'[p].status = "Activated"
                 /\ file' = file]_vars

\* C34, reached: the record was validated at a time later than the local
\* clock now shows, validate failed in transport and returned Activated.
C34_Witness ==
    \E p \in Procs :
        /\ HasRecord
        /\ Record.last_validated_at # None
        /\ ret[p].op = "validate"
        /\ ret[p].ok
        /\ ret[p].status = "Activated"
        /\ ret[p].clock # None
        /\ Get(ret[p].clock) < Get(Record.last_validated_at)

\* C35: when a time source answers a get_status on a trial record, the time
\* fetched is the effective time of the status, and the write of
\* last_server_time_check is best effort: a write that succeeds leaves the
\* time fetched in the file, a write that fails leaves the file as it was,
\* and in both cases the command returns the trial status computed from the
\* time fetched.
C35_BestEffortSave ==
    [][\A p \in Procs : \A srcs \in AnsweredReadings : \A ioOk \in BOOLEAN :
         ( /\ pc[p] = "gs_fetch"
           /\ GetStatusResume(p, srcs, 0, ioOk) )
         => LET server_time == Get(get_server_time(srcs))
                st == TrialStatus(server_time, Get(local[p].state.trial_start_utc))
            IN  /\ pc'[p] = "idle"
                /\ ret'[p].ok
                /\ ret'[p].status = st.status
                /\ ret'[p].days_remaining = st.days_remaining
                /\ ret'[p].now = Some(server_time)
                /\ ioOk => /\ file'.kind = "ok"
                           /\ file'.content.last_server_time_check = Some(server_time)
                /\ ~ioOk => file' = file]_vars

\* C35, reached: get_status returned Trial from a time fetched that the file
\* does not hold: the write had failed.
C35_Witness ==
    \E p \in Procs :
        /\ HasRecord
        /\ Record.trial_start_utc # None
        /\ ret[p].op = "get_status"
        /\ ret[p].status = "Trial"
        /\ ret[p].fetched # None
        /\ ret[p].now = ret[p].fetched
        /\ Record.last_server_time_check # ret[p].fetched

\* The reasons activate gives for the 4xx codes it tells apart: malformed
\* key, authentication failure, expired or over the device limit, not found,
\* activated on the maximum of devices.
RejectionReason ==
    [ c \in { 400, 401, 403, 404, 409 } |->
        CASE c = 400 -> "Invalid license key format. Please check your license key."
          [] c = 401 -> "License key authentication failed."
          [] c = 403 -> "License key is expired or has reached its device limit."
          [] c = 404 -> "License key not found."
          [] c = 409 -> "License key already activated on maximum devices." ]

\* The errors activate gives for the answers it does not tell apart by code.
GenericActivationErrors ==
    { "Activation failed",
      "License server temporarily unavailable. Please try again.",
      "Network error" }

\* C36: activate reports each of the answers 400, 401, 403, 404 and 409
\* with a reason of its own, any other 4xx with the generic activation
\* failure, an answer that is neither 2xx nor 4xx with the server-unavailable
\* error, and a request that got no answer with the network error; it goes on
\* to write the activation id of the answer only for a 2xx answer whose
\* status is "granted", and such an answer is refused only by a step that
\* follows the call (the device id, the load of the record).  validate
\* goes on to its save exactly when the answer is a 2xx answer with status
\* "granted": no other answer takes it there, and a grant takes it nowhere
\* else.
C36_ResponseClassification ==
    [][\A p \in Procs :
         /\ pc[p] = "act_polar"
            => \A resp \in Responses :
               \A devOk \in IF resp \in GrantedResponses THEN BOOLEAN ELSE { TRUE } :
               \A t \in IF resp \in GrantedResponses THEN Times ELSE { 0 } :
                 ActivateResume(p, resp, devOk, t)
                 => /\ ~resp.sent
                       => ~ret'[p].ok /\ ret'[p].err = "Network error"
                    /\ ( resp.sent /\ resp.code \in DOMAIN RejectionReason )
                       => /\ ~ret'[p].ok
                          /\ ret'[p].err = RejectionReason[resp.code]
                          /\ ret'[p].err \notin GenericActivationErrors
                          /\ \A d \in DOMAIN RejectionReason :
                                d # resp.code => RejectionReason[d] # ret'[p].err
                    /\ ( /\ resp.sent
                         /\ is_client_error(resp.code)
                         /\ resp.code \notin DOMAIN RejectionReason )
                       => ~ret'[p].ok /\ ret'[p].err = "Activation failed"
                    /\ ( /\ resp.sent
                         /\ ~is_client_error(resp.code)
                         /\ ~is_success(resp.code) )
                       => /\ ~ret'[p].ok
                          /\ ret'[p].err
                               = "License server temporarily unavailable. Please try again."
                    /\ pc'[p] = "act_save"
                       => /\ resp \in GrantedResponses
                          /\ local'[p].state.activation_id = Some(resp.id)
                    /\ resp \in GrantedResponses
                       => \/ pc'[p] = "act_save"
                          \/ ret'[p].err \in { "Failed to get device ID", "load failed" }
         /\ pc[p] = "val_polar"
            => \A resp \in Responses : \A t \in Times :
                 ( ( pc'[p] = "val_save" ) # ( resp \in GrantedResponses ) )
                 => ~ValidateResume(p, resp, t)]_vars

\* C36, reached: the authority answered an activation with 409 and activate
\* returned the reason of that code.
C36_Witness ==
    \E p \in Procs :
        /\ ret[p].op = "activate"
        /\ ~ret[p].ok
        /\ ret[p].err = RejectionReason[409]

\* C37: every Trial status get_status returns carries a days_remaining
\* between 1 and 7, whatever the record, the answer of the time sources and
\* the local clock are, an effective time before trial_start_utc included.
C37_TrialDaysInRange ==
    \A p \in Procs :
        ( ret[p].op = "get_status" /\ ret[p].status = "Trial" )
        => ( 1 <= ret[p].days_remaining /\ ret[p].days_remaining <= TRIAL_DAYS )

\* C38: get_status changes the file only when it returns from the trial
\* branch with a time fetched, and the record it then writes differs from
\* the record the file held at that moment in last_server_time_check alone;
\* the activated branch, the NoLicense result and the fallback after a
\* failed fetch leave the file as it is.
C38_GetStatusFrame ==
    [][\A p \in Procs :
         /\ ( pc[p] = "idle" /\ \E t \in Times : GetStatusCall(p, t) )
            => file' = file
         /\ TrialBranchReturns(p)
            => /\ ret'[p].fetched = None => file' = file
               /\ file' # file
                  => /\ file'.kind = "ok"
                     /\ file'.content =
                          [ LoadState(file) EXCEPT !.last_server_time_check =
                                file'.content.last_server_time_check ]]_vars

\* C39: an activate that succeeds writes a record with the trial_start_utc
\* and the last_server_time_check the file held; a validate that succeeds
\* writes a record that differs from the file's in last_validated_at alone;
\* a validate that ends at the authority's answer (accepted within the grace
\* period, or refused) and a validate that returns an error at any step
\* leave the file as it was.
C39_ActivateValidateFrame ==
    [][\A p \in Procs :
         /\ ( pc[p] = "act_save" /\ pc'[p] = "idle" /\ ret'[p].ok )
            => /\ file'.kind = "ok"
               /\ file'.content.trial_start_utc = LoadState(file).trial_start_utc
               /\ file'.content.last_server_time_check
                    = LoadState(file).last_server_time_check
         /\ ( pc[p] = "val_save" /\ pc'[p] = "idle" /\ ret'[p].ok )
            => /\ file'.kind = "ok"
               /\ file'.content =
                    [ LoadState(file) EXCEPT !.last_validated_at =
                          file'.content.last_validated_at ]
         /\ ( pc[p] = "val_polar" /\ pc'[p] = "idle" ) => file' = file
         /\ ( /\ pc[p] \in { "idle", "val_polar", "val_save" }
              /\ pc'[p] = "idle"
              /\ ret'[p].op = "validate"
              /\ ~ret'[p].ok
              /\ ( pc[p] = "idle" => issued' # issued ) )
            => file' = file]_vars

\* C39, reached: activate succeeded on a record that holds a trial start
\* and a last_server_time_check, and both are still in the file.
C39_Witness ==
    \E p \in Procs :
        /\ ret[p].op = "activate"
        /\ ret[p].ok
        /\ HasRecord
        /\ Record.is_activated
        /\ Record.trial_start_utc # None
        /\ Record.last_server_time_check # None

\* C40: whatever commands overlap a validate (a reset, a start_trial, an
\* activate), a record in the file that holds a last_validated_at also
\* holds a license_key and has is_activated set: validate writes no
\* validation time into a record without a license.
C40_ValidatedImpliesLicensed ==
    ( HasRecord /\ Record.last_validated_at # None )
    => ( Record.license_key # None /\ Record.is_activated )

====
